---- MODULE Spec2Model ----
(***************************************************************************)
(* Object resolution, caching and pagination engine of zenpy/lib/api.py:   *)
(* BaseApi (cache-first lookups, cache updates, create/update/delete) and  *)
(* ResultGenerator (lazy iteration over paginated results).                *)
(*                                                                         *)
(* The caches are cachetools LRUCache / TTLCache objects.  They are        *)
(* modelled as sequences of entries ordered by recency of use (least       *)
(* recently used first); a TTL entry also carries its expiry time and is   *)
(* expired when expire < now (cachetools: link.expire < time).             *)
(* The capacities (200 / 100) and the time-to-live (30 s) are scaled down  *)
(* so that overflow and expiry are reached by the model checker.           *)
(*                                                                         *)
(* Record constructors list their fields in the order TLC keeps them (the  *)
(* order in which the names first occur in the module), so that a record   *)
(* shared between TLC's workers is in normal form from the start.          *)
(***************************************************************************)
EXTENDS Integers, Sequences, FiniteSets, TLC

VARIABLES
    caches,     \* object type -> its cache: entries, least recently used first
    now,        \* the clock the TTL caches read
    gen,        \* the ResultGenerator the last lookup or listing returned
    last,       \* the last call and its outcome
    uses,       \* history: object type -> the ids used (hit or put), oldest use first
    put_at,     \* history: object type -> id -> the time of its last put, -1 if none
    readers     \* reader -> where it is in its call of next(), and what it received

vars == <<caches, now, gen, last, uses, put_at, readers>>

----------------------------------------------------------------------------
(* Bounds of the model *)

MaxId == 3          \* entity ids are 1..MaxId
MaxTime == 3        \* the clock runs from 0 to MaxTime

(* Scaled program constants: LRUCache(maxsize=200), LRUCache(maxsize=100), *)
(* TTLCache(maxsize=100, ttl=30)                                           *)
UserCacheSize == 2
RefCacheSize == 2
VolatileCacheSize == 2
VolatileTtl == 2

(* The calls of next() that signal the end are counted up to this number *)
MaxStops == 2

Ids == 1..MaxId
(* The content versions the service may serve for one id: two, so that a   *)
(* cached copy can differ from what a fetch would return                   *)
Vers == {1, 2}

----------------------------------------------------------------------------
(* Type registry *)

skip_cache == {"job_status"}

LruTypes == {"user", "organization", "group", "brand"}
TtlTypes == {"ticket", "comment"}
CacheTypes == LruTypes \cup TtlTypes

cache_mapping ==
    [t \in CacheTypes |->
        IF t = "user" THEN [kind |-> "LRU", maxsize |-> UserCacheSize, ttl |-> 0]
        ELSE IF t \in LruTypes THEN [kind |-> "LRU", maxsize |-> RefCacheSize, ttl |-> 0]
        ELSE [kind |-> "TTL", maxsize |-> VolatileCacheSize, ttl |-> VolatileTtl]]

class_mapping ==
    {"ticket", "user", "organization", "group", "brand", "topic", "comment",
     "attachment", "thumbnail", "metadata", "system", "create", "notification",
     "via", "source", "job_status"}

endpoint_mapping ==
    [k \in {"user", "ticket", "group", "results", "organization", "topic", "comment"} |->
        IF k = "results" THEN "results"
        ELSE IF k = "user" THEN "users"
        ELSE IF k = "ticket" THEN "tickets"
        ELSE IF k = "group" THEN "groups"
        ELSE IF k = "organization" THEN "organizations"
        ELSE IF k = "topic" THEN "topics"
        ELSE "comments"]

(* object_type + 's'  and  result_key[:-1] *)
Plural ==
    [t \in class_mapping \cup {"result"} |->
        CASE t = "ticket" -> "tickets" [] t = "user" -> "users"
          [] t = "organization" -> "organizations" [] t = "group" -> "groups"
          [] t = "brand" -> "brands" [] t = "topic" -> "topics"
          [] t = "comment" -> "comments" [] t = "attachment" -> "attachments"
          [] t = "thumbnail" -> "thumbnails" [] t = "metadata" -> "metadatas"
          [] t = "system" -> "systems" [] t = "create" -> "creates"
          [] t = "notification" -> "notifications" [] t = "via" -> "vias"
          [] t = "source" -> "sources" [] t = "job_status" -> "job_statuss"
          [] t = "result" -> "results"]

DropLastChar(k) == CHOOSE t \in DOMAIN Plural : Plural[t] = k

----------------------------------------------------------------------------
(* JSON payloads *)

(* An item payload: its id, its content version, its 'result_type' tag     *)
(* ("" when the key is absent) and one optional nested key ("" when none)  *)
(* holding the payload of another object, of id NestedId(id).              *)
Item(id, ver, rt, nested) ==
    [id |-> id, ver |-> ver, nested |-> nested, result_type |-> rt]

NestedId(id) == (id % MaxId) + 1

(* 'next_page': key absent, key present with null, or a page locator > 0 *)
Absent == -1
Null == 0

(* A response body: the top-level keys holding payloads (a singular key    *)
(* holds one object, written as a one-element sequence) and 'next_page'.   *)
Json(body, np) == [body |-> body, next_page |-> np]

EmptyBody == [k \in {} |-> <<>>]

(* An entity built by _object_from_json *)
None == [id |-> 0, ver |-> 0, variant |-> ""]

_object_from_json(clazz, item) == [id |-> item.id, ver |-> item.ver, variant |-> clazz]

class_for_type(object_type) ==
    IF object_type \notin class_mapping
    THEN [clazz |-> "", raise |-> "Exception"]
    ELSE [clazz |-> object_type, raise |-> ""]

----------------------------------------------------------------------------
(* cachetools LRUCache / TTLCache *)

(* Mutant: an entry expires as soon as its time-to-live has passed *)
Live_ExpiresAtTtl(kind, e, tm) == kind = "LRU" \/ tm < e.expire

(* Mutant: an entry never expires *)
Live_NoExpiry(kind, e, tm) == TRUE

(* An entry of a cache of this kind is not expired at time tm *)
Live(kind, e, tm) == kind = "LRU" \/ ~(e.expire < tm)

Has(c, id) == \E i \in 1..Len(c) : c[i].id = id

IndexOf(c, id) == CHOOSE i \in 1..Len(c) : c[i].id = id

Remove(c, i) == SubSeq(c, 1, i - 1) \o SubSeq(c, i + 1, Len(c))

(* key in cache *)
CacheContains(c, kind, id, tm) ==
    \E i \in 1..Len(c) : c[i].id = id /\ Live(kind, c[i], tm)

(* Mutant: a read that does not refresh the entry's recency *)
CacheGetItem_NoTouch(c, id) ==
    [obj |-> c[IndexOf(c, id)].obj, cache |-> c]

(* cache[key] for a key that is in the cache: the value, and the entry     *)
(* becomes the most recently used                                          *)
CacheGetItem(c, id) ==
    LET i == IndexOf(c, id)
    IN  [obj |-> c[i].obj, cache |-> Append(Remove(c, i), c[i])]

Expire(c, kind, tm) == SelectSeq(c, LAMBDA e : Live(kind, e, tm))

(* Mutant: a put that makes room only by dropping expired entries *)
CacheSetItem_NoEvict(c, cfg, id, obj, tm) ==
    LET c1 == Expire(c, cfg.kind, tm)
        c2 == IF Has(c1, id) THEN Remove(c1, IndexOf(c1, id)) ELSE c1
    IN  Append(c2, [id |-> id, expire |-> IF cfg.kind = "TTL" THEN tm + cfg.ttl ELSE 0,
                    obj |-> obj])

(* cache[key] = value: expired entries go first, then the least recently   *)
(* used entry when a new key finds the cache full                          *)
CacheSetItem(c, cfg, id, obj, tm) ==
    LET c1 == Expire(c, cfg.kind, tm)
        c2 == IF Has(c1, id) THEN Remove(c1, IndexOf(c1, id))
              ELSE IF Len(c1) >= cfg.maxsize THEN Tail(c1)
              ELSE c1
    IN  Append(c2, [id |-> id, expire |-> IF cfg.kind = "TTL" THEN tm + cfg.ttl ELSE 0,
                    obj |-> obj])

----------------------------------------------------------------------------
(* BaseApi: cache access.  cs holds the caches (cs.cache) and the history   *)
(* of their use: a hit of query_cache and a put of _cache_item are uses.   *)

Used(u, id) == Append(SelectSeq(u, LAMBDA x : x # id), id)

(* Mutant: a lookup that never finds the entry *)
query_cache_NoHit(cs, object_type, id, tm) ==
    IF object_type \in skip_cache \/ object_type \in DOMAIN cache_mapping
    THEN [caches |-> cs, raise |-> "", obj |-> None]
    ELSE [caches |-> cs, raise |-> "KeyError", obj |-> None]

query_cache(cs, object_type, id, tm) ==
    IF object_type \in skip_cache
    THEN [caches |-> cs, raise |-> "", obj |-> None]
    ELSE IF object_type \notin DOMAIN cache_mapping
    THEN [caches |-> cs, raise |-> "KeyError", obj |-> None]
    ELSE IF CacheContains(cs.cache[object_type], cache_mapping[object_type].kind, id, tm)
    THEN LET g == CacheGetItem(cs.cache[object_type], id)
         IN  [caches |-> [cs EXCEPT !.cache[object_type] = g.cache,
                                    !.uses[object_type] = Used(@, id)], raise |-> "",
              obj |-> g.obj]
    ELSE [caches |-> cs, raise |-> "", obj |-> None]

(* Mutant: the entity is stored under another id than its own *)
_cache_item_OtherKey(cs, cache, item_json, item_type, tm) ==
    [cs EXCEPT !.cache[cache] =
                   CacheSetItem(@, cache_mapping[cache], NestedId(item_json.id),
                                _object_from_json(item_type, item_json), tm),
               !.uses[cache] = Used(@, item_json.id),
               !.put_at[cache][item_json.id] = tm]

_cache_item(cs, cache, item_json, item_type, tm) ==
    [cs EXCEPT !.cache[cache] =
                   CacheSetItem(@, cache_mapping[cache], item_json.id,
                                _object_from_json(item_type, item_json), tm),
               !.uses[cache] = Used(@, item_json.id),
               !.put_at[cache][item_json.id] = tm]

RECURSIVE CacheEach(_, _, _, _, _)
CacheEach(cs, cache, objects, clazz, tm) ==
    IF objects = <<>> THEN cs
    ELSE CacheEach(_cache_item(cs, cache, Head(objects), clazz, tm),
                   cache, Tail(objects), clazz, tm)

add_to_cache(cs, object_type, body, tm) ==
    IF object_type \notin DOMAIN cache_mapping
    THEN [caches |-> cs, raise |-> "KeyError"]
    ELSE LET c == class_for_type(object_type)
             multiple_key == Plural[object_type]
         IN  IF c.raise # "" THEN [caches |-> cs, raise |-> c.raise]
             ELSE IF object_type \in DOMAIN body
             THEN [caches |-> _cache_item(cs, object_type, body[object_type][1], c.clazz, tm),
                   raise |-> ""]
             ELSE IF multiple_key \in DOMAIN body
             THEN [caches |-> CacheEach(cs, object_type, body[multiple_key], c.clazz, tm),
                   raise |-> ""]
             ELSE [caches |-> cs, raise |-> ""]

RECURSIVE cache_search_results(_, _, _)
cache_search_results(cs, results, tm) ==
    IF results = <<>> THEN [caches |-> cs, raise |-> ""]
    ELSE LET result == Head(results)
             object_type == result.result_type
         IN  IF object_type \notin class_mapping \/ object_type \notin DOMAIN cache_mapping
             THEN [caches |-> cs, raise |-> "KeyError"]
             ELSE cache_search_results(
                      _cache_item(cs, object_type, result, object_type, tm),
                      Tail(results), tm)

RECURSIVE AddAll(_, _, _, _)
AddAll(cs, types, body, tm) ==
    IF types = {} THEN [caches |-> cs, raise |-> ""]
    ELSE LET t == CHOOSE x \in types : TRUE
             r == add_to_cache(cs, t, body, tm)
         IN  IF r.raise # "" THEN r
             ELSE AddAll(r.caches, types \ {t}, body, tm)

update_caches(cs, body, tm) ==
    IF "results" \in DOMAIN body
    THEN cache_search_results(cs, body["results"], tm)
    ELSE AddAll(cs, DOMAIN cache_mapping, body, tm)

----------------------------------------------------------------------------
(* HTTP transport: what requests hands back, as the code inspects it *)

(* A response: status code, whether the content-type header names          *)
(* application/json, and the parsed body                                   *)
Response(status, is_json, json) ==
    [is_json |-> is_json, json |-> json, status_code |-> status]

(* requests' Response.raise_for_status(): HTTPError for 4xx and 5xx only *)
raise_for_status(response) ==
    IF 400 <= response.status_code /\ response.status_code < 600 THEN "HTTPError" ELSE ""

(* Mutant: the status test joined by "and", which no status satisfies *)
_check_response_And(response) ==
    IF response.status_code > 299 /\ response.status_code < 200
    THEN IF response.is_json
         THEN [raise |-> "Exception", ret |-> "None"]
         ELSE [raise |-> raise_for_status(response), ret |-> "None"]
    ELSE [raise |-> "", ret |-> "response"]

(* ret = "response" when the response is handed back, "None" when the      *)
(* function falls off its end                                              *)
_check_response(response) ==
    IF response.status_code > 299 \/ response.status_code < 200
    THEN IF response.is_json
         THEN [raise |-> "Exception", ret |-> "None"]
         ELSE [raise |-> raise_for_status(response), ret |-> "None"]
    ELSE [raise |-> "", ret |-> "response"]

(* No response at all: requests.get raised (connection refused, timeout) *)
Unreachable == Response(-1, FALSE, Json(EmptyBody, Absent))

(* _get: requests.get, which may raise, then _check_response *)
_get(response) ==
    IF response = Unreachable THEN [raise |-> "ConnectionError", ret |-> "None"]
    ELSE _check_response(response)

(* _query and get_as_json: response.json() of what _get returned *)
_query(response) ==
    LET r == _get(response)
    IN  IF r.raise # "" THEN [raise |-> r.raise, json |-> Json(EmptyBody, Absent)]
        ELSE IF r.ret = "None" THEN [raise |-> "AttributeError", json |-> Json(EmptyBody, Absent)]
        ELSE [raise |-> "", json |-> response.json]

----------------------------------------------------------------------------
(* ResultGenerator *)

NoGen == [json |-> Json(EmptyBody, Absent), active |-> FALSE, result_key |-> "",
          values |-> <<>>, position |-> 0, fetched |-> 0, drawn |-> <<>>,
          page_updates |-> 0, stops |-> 0]

(* ResultGenerator.__init__.  Beside the fields of the object the record   *)
(* keeps the history of the generator: the pages it fetched, the entities  *)
(* it yielded, and how many times update_caches was called with the        *)
(* payload of its current page, and how many times next() signalled the   *)
(* end (counted up to MaxStops).                                           *)
ResultGenerator(result_key, _json) ==
    IF result_key \notin DOMAIN endpoint_mapping
    THEN [gen |-> NoGen, raise |-> "KeyError"]
    ELSE IF endpoint_mapping[result_key] \notin DOMAIN _json.body
    THEN [gen |-> NoGen, raise |-> "KeyError"]
    ELSE [gen |-> [json |-> _json, active |-> TRUE,
                   result_key |-> endpoint_mapping[result_key],
                   values |-> _json.body[endpoint_mapping[result_key]],
                   position |-> 0, fetched |-> 0, drawn |-> <<>>,
                   page_updates |-> 0, stops |-> 0],
          raise |-> ""]

----------------------------------------------------------------------------
(* BaseApi: lookups and listing.  Each operator yields the outcome of the  *)
(* call: what is returned or raised, the network requests made (each with  *)
(* the keyword arguments its endpoint was built from), and the caches and  *)
(* generator after the call.                                               *)

(* A request: its method, the keyword arguments of its endpoint, and for a *)
(* POST or PUT the key and the objects of its payload                      *)
Send(method, kw, ids, key, objs) ==
    [method |-> method, kw |-> kw, ids |-> ids, key |-> key, objs |-> objs]

Request(kw, ids) == Send("GET", kw, ids, "", <<>>)

Outcome(outcome, err, value, req, cs, g) ==
    [caches |-> cs, gen |-> g, outcome |-> outcome, err |-> err,
     value |-> value, req |-> req]

get_item(cs, g, id, object_type, tm, response) ==
    LET cached_item == query_cache(cs, object_type, id, tm)
        req == <<Request("id", <<id>>)>>
    IN  IF cached_item.raise # ""
        THEN Outcome("raise", cached_item.raise, <<>>, <<>>, cs, g)
        ELSE IF cached_item.obj # None
        THEN Outcome("entity", "", <<cached_item.obj>>, <<>>, cached_item.caches, g)
        ELSE LET q == _query(response)
                 _json == q.json
             IN  IF q.raise # "" THEN Outcome("raise", q.raise, <<>>, req, cs, g)
                 ELSE IF _json.next_page # Absent
                 THEN LET rg == ResultGenerator(object_type, _json)
                      IN  IF rg.raise # "" THEN Outcome("raise", rg.raise, <<>>, req, cs, g)
                          ELSE Outcome("generator", "", <<>>, req, cs, rg.gen)
                 ELSE LET u == update_caches(cs, _json.body, tm)
                          clazz == class_for_type(object_type)
                      IN  IF u.raise # "" THEN Outcome("raise", u.raise, <<>>, req, u.caches, g)
                          ELSE IF clazz.raise # ""
                          THEN Outcome("raise", clazz.raise, <<>>, req, u.caches, g)
                          ELSE IF object_type \notin DOMAIN _json.body
                          THEN Outcome("raise", "KeyError", <<>>, req, u.caches, g)
                          ELSE Outcome("entity", "",
                                       <<_object_from_json(clazz.clazz, _json.body[object_type][1])>>,
                                       req, u.caches, g)

(* Mutant: a query that fails empties the cache of the type asked for *)
get_paginated_DropOnFailure(cs, g, kw, ids, object_type, tm, response) ==
    LET q == _query(response)
        req == <<Request(kw, ids)>>
    IN  IF q.raise # ""
        THEN Outcome("raise", q.raise, <<>>, req,
                     IF object_type \in CacheTypes
                     THEN [cs EXCEPT !.cache[object_type] = <<>>] ELSE cs, g)
        ELSE LET u == update_caches(cs, q.json.body, tm)
             IN  IF u.raise # "" THEN Outcome("raise", u.raise, <<>>, req, u.caches, g)
                 ELSE LET rg == ResultGenerator(object_type, q.json)
                      IN  IF rg.raise # "" THEN Outcome("raise", rg.raise, <<>>, req, u.caches, g)
                          ELSE Outcome("generator", "", <<>>, req, u.caches,
                                       [rg.gen EXCEPT !.page_updates = 1])

get_paginated(cs, g, kw, ids, object_type, tm, response) ==
    LET q == _query(response)
        req == <<Request(kw, ids)>>
    IN  IF q.raise # "" THEN Outcome("raise", q.raise, <<>>, req, cs, g)
        ELSE LET u == update_caches(cs, q.json.body, tm)
             IN  IF u.raise # "" THEN Outcome("raise", u.raise, <<>>, req, u.caches, g)
                 ELSE LET rg == ResultGenerator(object_type, q.json)
                      IN  IF rg.raise # "" THEN Outcome("raise", rg.raise, <<>>, req, u.caches, g)
                          ELSE Outcome("generator", "", <<>>, req, u.caches,
                                       [rg.gen EXCEPT !.page_updates = 1])

(* The loop of get_items over kwargs['ids'], from position i on *)
RECURSIVE QueryEach(_, _, _, _, _, _)
QueryEach(cs, object_type, ids, i, cached_objects, tm) ==
    IF i > Len(ids) THEN [caches |-> cs, raise |-> "", objs |-> cached_objects, miss |-> FALSE]
    ELSE LET obj == query_cache(cs, object_type, ids[i], tm)
         IN  IF obj.raise # ""
             THEN [caches |-> cs, raise |-> obj.raise, objs |-> cached_objects, miss |-> FALSE]
             ELSE IF obj.obj # None
             THEN QueryEach(obj.caches, object_type, ids, i + 1,
                            Append(cached_objects, obj.obj), tm)
             ELSE [caches |-> obj.caches, raise |-> "", objs |-> cached_objects, miss |-> TRUE]

(* Mutant: on a miss the query covers only the id that missed *)
get_items_OnlyMissing(cs, g, object_type, kw, ids, tm, response) ==
    IF kw = "id" THEN get_item(cs, g, ids[1], object_type, tm, response)
    ELSE IF kw = "ids"
    THEN LET l == QueryEach(cs, object_type, ids, 1, <<>>, tm)
         IN  IF l.raise # "" THEN Outcome("raise", l.raise, <<>>, <<>>, l.caches, g)
             ELSE IF l.miss
             THEN get_paginated(l.caches, g, kw, <<ids[Len(l.objs) + 1]>>,
                                object_type, tm, response)
             ELSE Outcome("list", "", l.objs, <<>>, l.caches, g)
    ELSE get_paginated(cs, g, kw, ids, object_type, tm, response)

(* Mutant: a listing answered from a cache that holds entries *)
get_items_ListFromCache(cs, g, object_type, kw, ids, tm, response) ==
    IF kw = "id" THEN get_item(cs, g, ids[1], object_type, tm, response)
    ELSE IF kw = "ids"
    THEN LET l == QueryEach(cs, object_type, ids, 1, <<>>, tm)
         IN  IF l.raise # "" THEN Outcome("raise", l.raise, <<>>, <<>>, l.caches, g)
             ELSE IF l.miss
             THEN get_paginated(l.caches, g, kw, ids, object_type, tm, response)
             ELSE Outcome("list", "", l.objs, <<>>, l.caches, g)
    ELSE IF object_type \in DOMAIN cache_mapping /\ cs.cache[object_type] # <<>>
    THEN Outcome("list", "",
                 [i \in 1..Len(cs.cache[object_type]) |-> cs.cache[object_type][i].obj],
                 <<>>, cs, g)
    ELSE get_paginated(cs, g, kw, ids, object_type, tm, response)

(* get_items; kw is "id", "ids" or "" (neither key in kwargs) *)
get_items(cs, g, object_type, kw, ids, tm, response) ==
    IF kw = "id" THEN get_item(cs, g, ids[1], object_type, tm, response)
    ELSE IF kw = "ids"
    THEN LET l == QueryEach(cs, object_type, ids, 1, <<>>, tm)
         IN  IF l.raise # "" THEN Outcome("raise", l.raise, <<>>, <<>>, l.caches, g)
             ELSE IF l.miss
             THEN get_paginated(l.caches, g, kw, ids, object_type, tm, response)
             ELSE Outcome("list", "", l.objs, <<>>, l.caches, g)
    ELSE get_paginated(cs, g, kw, ids, object_type, tm, response)

----------------------------------------------------------------------------
(* ResultGenerator.next *)

(* The attributes of a dict that the code reads: dict has get, not _get *)
DictAttrs == {"get", "pop", "iteritems", "keys"}

(* The attribute read on self._json to obtain the next-page locator *)
NextPageAttr == "_get"

(* The keys of an item payload, as update_caches sees them *)
ItemBody(item_json) ==
    IF item_json.nested = "" THEN EmptyBody
    ELSE (item_json.nested :> <<Item(NestedId(item_json.id), item_json.ver, "", "")>>)

(* raise StopIteration() *)
Stop(cs, g, req) ==
    Outcome("stop", "StopIteration", <<>>, req, cs,
            [g EXCEPT !.stops = IF @ < MaxStops THEN @ + 1 ELSE @])

(* The part of next() after pagination: draw the item at the position *)
Draw(cs, g, tm, req) ==
    IF g.values = <<>> THEN Stop(cs, g, req)
    ELSE LET item_json == g.values[g.position + 1]
             u == update_caches(cs, ItemBody(item_json), tm)
             tagged == item_json.result_type # ""
             object_type == IF tagged THEN item_json.result_type
                            ELSE DropLastChar(g.result_key)
             popped == [item_json EXCEPT !.result_type = ""]
             vals == [g.values EXCEPT ![g.position + 1] = popped]
             g1 == [g EXCEPT !.position = g.position + 1, !.values = vals,
                             !.json.body[g.result_key] = vals]
             clazz == class_for_type(object_type)
         IN  IF u.raise # "" THEN Outcome("raise", u.raise, <<>>, req, u.caches, g)
             ELSE IF clazz.raise # ""
             THEN Outcome("raise", clazz.raise, <<>>, req, u.caches, g1)
             ELSE LET obj == _object_from_json(clazz.clazz, popped)
                  IN  Outcome("entity", "", <<obj>>, req, u.caches,
                              [g1 EXCEPT !.drawn = Append(g.drawn, obj)])

(* A next() that starts over on the call after the one that signalled the  *)
(* end                                                                     *)
next_Restart(cs, g, tm, response) ==
    IF g.position >= Len(g.values)
    THEN IF g.json.next_page > Null
         THEN IF NextPageAttr \notin DictAttrs
              THEN Outcome("raise", "AttributeError", <<>>, <<>>, cs, g)
              ELSE LET q == _query(response)
                       req == <<Request("next_page", <<g.json.next_page>>)>>
                       g1 == [g EXCEPT !.json = q.json, !.fetched = g.fetched + 1,
                                       !.page_updates = 0]
                   IN  IF q.raise # "" THEN Outcome("raise", q.raise, <<>>, req, cs, g)
                       ELSE IF g.result_key \notin DOMAIN q.json.body
                       THEN Outcome("raise", "KeyError", <<>>, req, cs, g1)
                       ELSE Draw(cs, [g1 EXCEPT !.values = q.json.body[g.result_key],
                                                !.position = 0], tm, req)
         ELSE IF g.stops > 0 /\ g.values # <<>>
         THEN Draw(cs, [g EXCEPT !.position = 0, !.stops = 0], tm, <<>>)
         ELSE Stop(cs, g, <<>>)
    ELSE Draw(cs, g, tm, <<>>)

next(cs, g, tm, response) ==
    IF g.position >= Len(g.values)
    THEN IF g.json.next_page > Null
         THEN IF NextPageAttr \notin DictAttrs
              THEN Outcome("raise", "AttributeError", <<>>, <<>>, cs, g)
              ELSE LET q == _query(response)
                       req == <<Request("next_page", <<g.json.next_page>>)>>
                       g1 == [g EXCEPT !.json = q.json, !.fetched = g.fetched + 1,
                                       !.page_updates = 0]
                   IN  IF q.raise # "" THEN Outcome("raise", q.raise, <<>>, req, cs, g)
                       ELSE IF g.result_key \notin DOMAIN q.json.body
                       THEN Outcome("raise", "KeyError", <<>>, req, cs, g1)
                       ELSE Draw(cs, [g1 EXCEPT !.values = q.json.body[g.result_key],
                                                !.position = 0], tm, req)
         ELSE Stop(cs, g, <<>>)
    ELSE Draw(cs, g, tm, <<>>)

----------------------------------------------------------------------------
(* BaseApi: create, update and delete *)

_delete(response) == _check_response(response)

(* delete_items of one item (kind "single") or of a list (kind "list").    *)
(* After _delete, 'response.status_code' fails on None; with another       *)
(* status than 200 the code names response.raise_for_status and does not   *)
(* call it.                                                                *)
delete_items(cs, g, kind, ids, response) ==
    LET req == <<Send("DELETE", IF kind = "list" THEN "destroy_ids" ELSE "id", ids, "", <<>>)>>
        r == _delete(response)
    IN  IF r.raise # "" THEN Outcome("raise", r.raise, <<>>, req, cs, g)
        ELSE IF r.ret = "None" THEN Outcome("raise", "AttributeError", <<>>, req, cs, g)
        ELSE Outcome("none", "", <<>>, req, cs, g)

(* Truth of a str in a condition *)
StrTruthy(str) == str # ""

build_ticket_audit(response_json) ==
    (IF "ticket" \in DOMAIN response_json
     THEN <<_object_from_json("ticket", response_json["ticket"][1])>> ELSE <<>>)
    \o (IF "audit" \in DOMAIN response_json
        THEN <<_object_from_json("audit", response_json["audit"][1])>> ELSE <<>>)

object_from_json(object_type, object_json) ==
    LET obj == class_for_type(object_type)
    IN  IF obj.raise # "" THEN [raise |-> obj.raise, obj |-> None]
        ELSE [raise |-> "", obj |-> _object_from_json(obj.clazz, object_json)]

(* build_create_response; its first test is  'ticket' and 'audit' in       *)
(* response_json.  The last branch fails on  str + dict.                   *)
build_create_response(response_json) ==
    IF StrTruthy("ticket") /\ "audit" \in DOMAIN response_json
    THEN [kind |-> "ticket_audit", raise |-> "", value |-> build_ticket_audit(response_json)]
    ELSE IF "user" \in DOMAIN response_json
    THEN LET o == object_from_json("user", response_json["user"][1])
         IN  [kind |-> "entity", raise |-> o.raise, value |-> <<o.obj>>]
    ELSE IF "job_status" \in DOMAIN response_json
    THEN LET o == object_from_json("job_status", response_json["job_status"][1])
         IN  [kind |-> "entity", raise |-> o.raise, value |-> <<o.obj>>]
    ELSE [kind |-> "", raise |-> "TypeError", value |-> <<>>]

(* The outcome of a call that ends with build_create_response *)
Built(response_json, req, cs, g) ==
    LET b == build_create_response(response_json)
    IN  IF b.raise # "" THEN Outcome("raise", b.raise, <<>>, req, cs, g)
        ELSE Outcome(b.kind, "", b.value, req, cs, g)

(* obj.__class__.__name__.lower() *)
ClassName(obj) ==
    IF obj.variant = "job_status" THEN "jobstatus"
    ELSE IF obj.variant = "create" THEN "createevent"
    ELSE obj.variant

(* "%ss" % name *)
AddS(name) ==
    IF name = "jobstatus" THEN "jobstatuss"
    ELSE IF name = "createevent" THEN "createevents"
    ELSE Plural[name]

(* _post drops what _check_response returns and decodes the response      *)
(* itself; response.json() fails on a body that is not JSON                *)
_post(req, response, cs, g) ==
    LET r == _check_response(response)
    IN  IF r.raise # "" THEN Outcome("raise", r.raise, <<>>, req, cs, g)
        ELSE IF ~response.is_json THEN Outcome("raise", "ValueError", <<>>, req, cs, g)
        ELSE Built(response.json.body, req, cs, g)

_put(response) == _check_response(response)

(* A create_items that posts every entity of a list in a request of its own *)
create_items_PostEach(cs, g, kind, items, response) ==
    IF kind = "list" /\ items # <<>>
    THEN _post([i \in 1..Len(items) |->
                   Send("POST", "", <<>>, ClassName(items[i]), <<items[i]>>)],
               response, cs, g)
    ELSE IF kind = "single"
    THEN _post(<<Send("POST", "", <<>>, ClassName(items[1]), items)>>, response, cs, g)
    ELSE Outcome("none", "", <<>>, <<>>, cs, g)

(* create_items of one entity (kind "single", items holds it) or of a list *)
create_items(cs, g, kind, items, response) ==
    IF kind = "list" /\ items # <<>>
    THEN _post(<<Send("POST", "create_many", <<>>, AddS(ClassName(items[1])), items)>>,
               response, cs, g)
    ELSE IF kind = "single"
    THEN _post(<<Send("POST", "", <<>>, ClassName(items[1]), items)>>, response, cs, g)
    ELSE Outcome("none", "", <<>>, <<>>, cs, g)

(* 'for i in items' over a ResultGenerator: __iter__ returns the generator *)
(* itself and next() is called until it raises; StopIteration ends the     *)
(* loop, another error leaves it.  No response is at hand for a page fetch. *)
RECURSIVE Iterate(_, _, _, _)
(* The loop after a call of next() with outcome o *)
Collect(o, tm, objs) ==
    IF o.outcome = "entity"
    THEN Iterate(o.caches, o.gen, tm, objs \o o.value)
    ELSE [caches |-> o.caches, gen |-> o.gen,
          raise |-> IF o.outcome = "stop" THEN "" ELSE o.err, objs |-> objs]

Iterate(cs, g, tm, objs) ==
    Collect(next(cs, g, tm, Response(0, FALSE, Json(EmptyBody, Absent))), tm, objs)

(* The PUT of update_items for a ResultGenerator, of which all are the     *)
(* entities it yielded: next((x for x in items)) drew the first of them,   *)
(* and the payload is built from what the generator yielded after it       *)
PutRest(all, response) ==
    LET req == <<Send("PUT", "update_many", <<>>,
                      AddS(ClassName(Head(all.objs))), Tail(all.objs))>>
        r == _put(response)
    IN  IF all.objs = <<>>
        THEN Outcome("raise", IF all.raise = "" THEN "StopIteration" ELSE all.raise,
                     <<>>, <<>>, all.caches, all.gen)
        ELSE IF all.raise # ""
        THEN Outcome("raise", all.raise, <<>>, <<>>, all.caches, all.gen)
        ELSE IF r.raise # ""
        THEN Outcome("raise", r.raise, <<>>, req, all.caches, all.gen)
        ELSE IF r.ret = "None"
        THEN Outcome("raise", "AttributeError", <<>>, req, all.caches, all.gen)
        ELSE Built(response.json.body, req, all.caches, all.gen)

update_generator(cs, g, tm, response) == PutRest(Iterate(cs, g, tm, <<>>), response)

(* update_items of one entity (kind "single", items holds it), of a list,  *)
(* or of the ResultGenerator g (kind "generator")                          *)
update_items(cs, g, kind, items, tm, response) ==
    IF kind = "generator" THEN update_generator(cs, g, tm, response)
    ELSE IF kind = "list" /\ items = <<>>
    THEN Outcome("raise", "StopIteration", <<>>, <<>>, cs, g)
    ELSE LET req == IF kind = "list"
                    THEN <<Send("PUT", "update_many", <<>>, AddS(ClassName(items[1])), items)>>
                    ELSE <<Send("PUT", "id", <<items[1].id>>, ClassName(items[1]), items)>>
             r == _put(response)
         IN  IF r.raise # "" THEN Outcome("raise", r.raise, <<>>, req, cs, g)
             ELSE IF r.ret = "None" THEN Outcome("raise", "AttributeError", <<>>, req, cs, g)
             ELSE Built(response.json.body, req, cs, g)

----------------------------------------------------------------------------
(* The service, as far as the client sees it *)

ResultKey(t) == IF t \in DOMAIN endpoint_mapping THEN endpoint_mapping[t] ELSE Plural[t]

(* An item of a page of type t; a search result carries its tag *)
PageItem(t, id, v, tag) == Item(id, v, IF t = "results" THEN tag ELSE "", "")

(* A two-page result set: page 1 holds items 1 and 2 and a locator of      *)
(* page 2, page 2 holds item 3 and no locator.  And an empty result.       *)
Page(t, n, v, tag) ==
    IF n = 1
    THEN Json((ResultKey(t) :> <<PageItem(t, 1, v, tag), PageItem(t, 2, v, tag)>>), 2)
    ELSE Json((ResultKey(t) :> <<PageItem(t, 3, v, tag)>>), Null)

EmptyPage(t) == Json((ResultKey(t) :> <<>>), Null)

Single(t, id, v) == Json((t :> <<Item(id, v, "", "")>>), Absent)

Many(t, ids, v, tag) ==
    Json((ResultKey(t) :> [i \in 1..Len(ids) |-> PageItem(t, ids[i], v, tag)]), Null)

(* No request was made *)
NoResponse == Response(0, FALSE, Json(EmptyBody, Absent))

Failures == {Response(500, j, Json(EmptyBody, Absent)) : j \in BOOLEAN}

Ok(jsons) == {Response(200, TRUE, j) : j \in jsons}

(* The tags search results carry, when the service holds entities of the   *)
(* types T: those types, and topics                                        *)
Tags(T) == (T \cap class_mapping) \cup {"topic"}

(* What the service may answer to the request of get_items, serving        *)
(* content of one of the versions V                                        *)
Responses(T, V, t, kw, ids) ==
    Failures \cup
    Ok(IF kw = "id"
       THEN {Single(t, ids[1], v) : v \in V}
            \cup {Page(t, 1, v, tag) : v \in V, tag \in Tags(T)}
       ELSE IF kw = "ids" THEN {Many(t, ids, v, tag) : v \in V, tag \in Tags(T)}
       ELSE {Page(t, 1, v, tag) : v \in V, tag \in Tags(T)} \cup {EmptyPage(t)})

(* What the service may answer to the request of a page *)
PageResponses(V, k, n) ==
    Failures \cup Ok({Page(DropLastChar(k), n, v, "topic") : v \in V})

----------------------------------------------------------------------------
(* State *)

(* The record of the last call: the operation and its arguments, the      *)
(* state of the cache when the call started (whether every requested id    *)
(* was in the cache, the entities cached for the requested ids, and for a  *)
(* lookup of a volatile type whether the id's last put is within the       *)
(* time-to-live and whether the id is among the most recently used ids,    *)
(* as many as the cache holds), the answer of the service, the call's      *)
(* outcome, and for create and update the argument: its kind ("single",    *)
(* "list" or "generator") and the entities it holds.                       *)
Call(op, t, ids, pre, response, o) ==
    [ids |-> ids, outcome |-> o.outcome, err |-> o.err, value |-> o.value, req |-> o.req,
     op |-> op, type |-> t, hit |-> pre.hit,
     cached |-> pre.cached, age |-> pre.age, recent |-> pre.recent, resp |-> response,
     arg |-> <<>>]

NoCall == [ids |-> <<>>, outcome |-> "", err |-> "", value |-> <<>>, req |-> <<>>,
           op |-> "", type |-> "", hit |-> FALSE,
           cached |-> <<>>, age |-> "", recent |-> FALSE, resp |-> NoResponse,
           arg |-> <<>>]

(* (type, id) is in the cache at time tm: an entry exists and has not expired *)
InCache(cs, t, id, tm) ==
    /\ t \in CacheTypes
    /\ \E i \in 1..Len(cs.cache[t]) :
          cs.cache[t][i].id = id /\ (t \in LruTypes \/ tm <= cs.cache[t][i].expire)

Cached(cs, t, id) == cs.cache[t][IndexOf(cs.cache[t], id)].obj

(* Whether the last put of (type, id) is within the time-to-live *)
Age(cs, t, id, tm) ==
    IF t \notin TtlTypes THEN ""
    ELSE IF cs.put_at[t][id] < 0 THEN "never"
    ELSE IF tm <= cs.put_at[t][id] + cache_mapping[t].ttl THEN "fresh"
    ELSE "expired"

(* The n last elements of a sequence *)
LastN(q, n) == IF Len(q) <= n THEN q ELSE SubSeq(q, Len(q) - n + 1, Len(q))

(* Whether id is among the most recently used ids, as many as the cache holds *)
Recent(cs, t, id) ==
    /\ t \in CacheTypes
    /\ \E i \in 1..Len(LastN(cs.uses[t], cache_mapping[t].maxsize)) :
          LastN(cs.uses[t], cache_mapping[t].maxsize)[i] = id

(* The ids a call asks for: its arguments, or for a listing the ids of the *)
(* items the service answers with                                          *)
Asked(t, kw, ids, response) ==
    IF kw # "" THEN ids
    ELSE IF ResultKey(t) \in DOMAIN response.json.body
    THEN [i \in 1..Len(response.json.body[ResultKey(t)]) |->
             response.json.body[ResultKey(t)][i].id]
    ELSE <<>>

Pre(cs, t, ids, tm) ==
    [hit |-> \A i \in 1..Len(ids) : InCache(cs, t, ids[i], tm),
     cached |-> [i \in 1..Len(SelectSeq(ids, LAMBDA x : InCache(cs, t, x, tm))) |->
                    Cached(cs, t, SelectSeq(ids, LAMBDA x : InCache(cs, t, x, tm))[i])],
     age |-> IF Len(ids) = 1 THEN Age(cs, t, ids[1], tm) ELSE "",
     recent |-> Len(ids) = 1 /\ Recent(cs, t, ids[1])]

NoPre == [hit |-> FALSE, cached |-> <<>>, age |-> "", recent |-> FALSE]

(* The callers of next() on one generator, and a caller outside any call:  *)
(* pc is the statement it is at, at the index of the item it read,         *)
(* pos the position it loaded, called whether it ever called next(), and   *)
(* got what its calls that consumed an item handed it, in order: the       *)
(* entity, or Unmapped(item) when the mapping of the item raised           *)
Readers == {1, 2}

Idle == [pc |-> "idle", at |-> 0, pos |-> 0, got |-> <<>>, called |-> FALSE]

State == [uses |-> uses, put_at |-> put_at, cache |-> caches]

Init ==
    /\ caches = [t \in CacheTypes |-> <<>>]
    /\ now = 0
    /\ gen = NoGen
    /\ last = NoCall
    /\ uses = [t \in CacheTypes |-> <<>>]
    /\ put_at = [t \in CacheTypes |-> [id \in Ids |-> -1]]
    /\ readers = [r \in Readers |-> Idle]

(* The state after a call with outcome o, recorded as c *)
Becomes(o, c) ==
    /\ caches' = o.caches.cache
    /\ uses' = o.caches.uses
    /\ put_at' = o.caches.put_at
    /\ gen' = o.gen
    /\ last' = c
    /\ UNCHANGED <<now, readers>>

(* Time passes *)
Tick ==
    /\ now < MaxTime
    /\ now' = now + 1
    /\ UNCHANGED <<caches, gen, last, uses, put_at, readers>>

(* A call of get_items.  The caller holds the generator of an earlier call *)
(* across this call (hold), or has dropped it.                             *)
Apply(op, t, kw, ids, response, hold) ==
    LET o == get_items(State, IF hold THEN gen ELSE NoGen, t, kw, ids, now, response)
    IN  Becomes(o, Call(op, t, ids, Pre(State, t, Asked(t, kw, ids, response), now),
                        IF o.req = <<>> THEN NoResponse ELSE response, o))

(* api(id=...) for an api of one of the types T *)
Get(T, V, hold) ==
    \E t \in T, id \in Ids :
        \E response \in Responses(T, V, t, "id", <<id>>) :
            Apply("get", t, "id", <<id>>, response, hold)

(* Lists of one or two distinct ids *)
IdLists == {<<a>> : a \in Ids} \cup ({<<a, b>> : a, b \in Ids} \ {<<a, a>> : a \in Ids})

(* api(ids=[...]) *)
GetMany(T, V, hold) ==
    \E t \in T, ids \in IdLists :
        \E response \in Responses(T, V, t, "ids", ids) :
            Apply("getMany", t, "ids", ids, response, hold)

(* api(filters): neither 'id' nor 'ids' in kwargs *)
List(T, V, hold) ==
    \E t \in T :
        \E response \in Responses(T, V, t, "", <<>>) :
            Apply("list", t, "", <<>>, response, hold)

(* next() on the generator the last lookup or listing returned; the call   *)
(* is recorded with the item payload at the position, when there is one    *)
GenNext(V) ==
    /\ gen.active
    /\ \E response \in PageResponses(V, gen.result_key, gen.json.next_page) :
          LET o == next(State, gen, now, response)
          IN  Becomes(o, [Call("next", DropLastChar(gen.result_key), <<>>, NoPre,
                               IF o.req = <<>> THEN NoResponse ELSE response, o)
                          EXCEPT !.arg = IF gen.position < Len(gen.values)
                                         THEN <<gen.values[gen.position + 1]>>
                                         ELSE <<>>])

(* Reference data, in a capacity-bounded cache: lookups and listings *)
RefTypes == {"user"}

Next ==
    Get(RefTypes, Vers, FALSE) \/ GetMany(RefTypes, Vers, FALSE) \/ List(RefTypes, Vers, FALSE)

Spec == Init /\ [][Next]_vars

(* Volatile data, in a time-bounded cache, served with the time as its     *)
(* content version: lookups as time passes                                 *)
VolatileTypes == {"ticket"}

NextVolatile ==
    Tick \/ Get(VolatileTypes, {now}, FALSE)

SpecVolatile == Init /\ [][NextVolatile]_vars

(* Paginated results: listings, secondary lookups and draws *)
PagedTypes == {"user", "topic", "results"}

NextPaged == Get(PagedTypes, {1}, TRUE) \/ List(PagedTypes, {1}, TRUE) \/ GenNext({1})

SpecPaged == Init /\ [][NextPaged]_vars

(* The cache access of BaseApi called directly, for types with and without *)
(* a cache                                                                 *)
UncachedTypes == class_mapping \ CacheTypes

RegistryTypes == UncachedTypes \cup {"user"}

QueryCache(T) ==
    \E t \in T, id \in Ids :
        LET q == query_cache(State, t, id, now)
            o == Outcome(IF q.raise # "" THEN "raise"
                         ELSE IF q.obj = None THEN "miss" ELSE "entity",
                         q.raise, IF q.obj = None THEN <<>> ELSE <<q.obj>>,
                         <<>>, q.caches, gen)
        IN  Becomes(o, Call("query_cache", t, <<id>>, Pre(State, t, <<id>>, now),
                            NoResponse, o))

(* The payloads handed to add_to_cache for a type: an object or a list of it *)
Payloads(t) ==
    {Single(t, id, 1) : id \in Ids} \cup {Many(t, <<1, 2>>, 1, "")}

AddToCache(T) ==
    \E t \in T : \E _json \in Payloads(t) :
        LET a == add_to_cache(State, t, _json.body, now)
            o == Outcome(IF a.raise # "" THEN "raise" ELSE "none", a.raise, <<>>,
                         <<>>, a.caches, gen)
        IN  Becomes(o, Call("add_to_cache", t, <<>>, NoPre, Response(0, TRUE, _json), o))

CacheSearchResults(T) ==
    \E a \in T, b \in T \cap {"user", "topic"} :
        LET _json == Json(("results" :> <<Item(1, 1, a, ""), Item(2, 1, b, "")>>), Null)
            c == cache_search_results(State, _json.body["results"], now)
            o == Outcome(IF c.raise # "" THEN "raise" ELSE "none", c.raise, <<>>,
                         <<>>, c.caches, gen)
        IN  Becomes(o, Call("cache_search_results", "results", <<>>, NoPre,
                            Response(0, TRUE, _json), o))

NextRegistry ==
    QueryCache(RegistryTypes) \/ AddToCache(RegistryTypes) \/ CacheSearchResults(RegistryTypes)

SpecRegistry == Init /\ [][NextRegistry]_vars

(* Create, update and delete: the entities handed over, the status and the *)
(* top-level keys of the answer                                            *)
MutableTypes == {"ticket", "user"}

Entity(t, id) == [id |-> id, ver |-> 1, variant |-> t]

(* One entity, or a list of none, one or two, the second possibly of      *)
(* another type                                                            *)
ItemsOf(t) ==
    {<<"single", <<Entity(t, 1)>>>>, <<"list", <<>>>>, <<"list", <<Entity(t, 1)>>>>,
     <<"list", <<Entity(t, 1), Entity(t, 2)>>>>,
     <<"list", <<Entity(t, 2), Entity("job_status", 1)>>>>}

Statuses == {100, 199, 200, 201, 204, 299, 300, 304, 400, 404, 500, 599, 600}

ResponseKeys == {"ticket", "audit", "user", "job_status"}

(* An answer in 200..299 carries JSON with some of the keys; a refusal     *)
(* carries none                                                            *)
Answers ==
    {Response(st, TRUE, Json([k \in keys |-> <<Item(1, 1, "", "")>>], Absent)) :
        st \in {200, 201}, keys \in SUBSET ResponseKeys}
    \cup {Response(st, j, Json(EmptyBody, Absent)) : st \in {304, 422}, j \in BOOLEAN}

Create ==
    \E t \in MutableTypes : \E items \in ItemsOf(t), response \in Answers :
        LET o == create_items(State, gen, items[1], items[2], response)
        IN  Becomes(o, [Call("create", t, <<>>, NoPre,
                             IF o.req = <<>> THEN NoResponse ELSE response, o)
                           EXCEPT !.arg = items])

Update ==
    \E t \in MutableTypes : \E items \in ItemsOf(t), response \in Answers :
        LET o == update_items(State, gen, items[1], items[2], now, response)
        IN  Becomes(o, [Call("update", t, <<>>, NoPre,
                             IF o.req = <<>> THEN NoResponse ELSE response, o)
                           EXCEPT !.arg = items])

Delete ==
    \E t \in MutableTypes : \E items \in ItemsOf(t), st \in Statuses, j \in BOOLEAN :
        LET ids == [i \in 1..Len(items[2]) |-> items[2][i].id]
            response == Response(st, j, Json(EmptyBody, Absent))
            o == delete_items(State, gen, items[1], ids, response)
        IN  Becomes(o, Call("delete", t, ids, NoPre, response, o))

NextMutate == Create \/ Update \/ Delete

SpecMutate == Init /\ [][NextMutate]_vars

(* The entities a generator on its last page still holds *)
Remaining(g) ==
    [i \in 1..(Len(g.values) - g.position) |->
        _object_from_json(IF g.values[g.position + i].result_type # ""
                          THEN g.values[g.position + i].result_type
                          ELSE DropLastChar(g.result_key),
                          g.values[g.position + i])]

(* The sequences update is called with: a list, or the generator a lookup *)
(* returned                                                                *)
Sequences(T) ==
    {i \in UNION {ItemsOf(t) : t \in T} : i[1] = "list"}
    \cup (IF gen.active THEN {<<"generator", Remaining(gen)>>} ELSE {})

(* update(items) with a list or a generator *)
UpdateMany(T) ==
    \E response \in {Response(200, TRUE, Single("user", 1, 1)),
                     Response(422, TRUE, Json(EmptyBody, Absent))} :
        \E items \in Sequences(T) :
            LET o == update_items(State, gen, items[1], items[2], now, response)
            IN  Becomes(o, [Call("update", IF items[2] = <<>> THEN "" ELSE items[2][1].variant,
                                 <<>>, NoPre,
                                 IF o.req = <<>> THEN NoResponse ELSE response, o)
                               EXCEPT !.arg = items])

NextUpdate ==
    GetMany(RefTypes, {1}, TRUE) \/ List(RefTypes, {1}, TRUE) \/ GenNext({1})
        \/ UpdateMany(RefTypes)

SpecUpdate == Init /\ [][NextUpdate]_vars

(* A ResultGenerator constructed on a payload, for a result key among K,   *)
(* and drawn from.  The payload holds two items, each with or without a    *)
(* 'result_type' tag, the first with or without a nested user object, and  *)
(* no locator of a next page.                                              *)
ItemTags == {"", "user", "topic"}

Payload(k) ==
    {Json((endpoint_mapping[k] :> <<Item(1, 1, a, n), Item(2, 1, b, "")>>), Null) :
        a \in ItemTags, b \in ItemTags, n \in {"", "user"}}

NewGenerator(K) ==
    \E k \in K : \E _json \in Payload(k) :
        LET rg == ResultGenerator(k, _json)
            o == Outcome(IF rg.raise # "" THEN "raise" ELSE "generator", rg.raise,
                         <<>>, <<>>, State, rg.gen)
        IN  Becomes(o, Call("ResultGenerator", k, <<>>, NoPre, NoResponse, o))

NextGenerator == NewGenerator(DOMAIN endpoint_mapping) \/ GenNext({1})

SpecGenerator == Init /\ [][NextGenerator]_vars

(* next() called by two readers of one generator, each call taken          *)
(* statement by statement: nothing in the source keeps the statements of   *)
(* one call together.                                                      *)

(* The record of a call of next() by reader r that ended *)
Returned(r, outcome, err, value) ==
    [NoCall EXCEPT !.outcome = outcome, !.err = err, !.value = value,
                   !.op = "next", !.arg = <<r>>]

(* What a reader is left with when the mapping of the item it read raised: *)
(* no entity                                                               *)
Unmapped(item) == _object_from_json("", item)

(* Mutant: the position is stored as it was loaded *)
Advance_Stay(g, position) == [g EXCEPT !.position = position]

(* self.position += 1, with the position loaded before *)
Advance(g, position) == [g EXCEPT !.position = position + 1]

(* The generator is constructed while no reader is in a call *)
Construct ==
    /\ ~gen.active
    /\ NewGenerator(DOMAIN endpoint_mapping)

(* if self.position >= len(self.values): the end, or on to the item *)
Enter(r) ==
    /\ gen.active /\ readers[r].pc = "idle"
    /\ IF gen.position >= Len(gen.values)
       THEN LET o == next(State, gen, now, NoResponse)
            IN  /\ gen' = o.gen
                /\ last' = Returned(r, o.outcome, o.err, <<>>)
                /\ readers' = [readers EXCEPT ![r].called = TRUE]
       ELSE /\ readers' = [readers EXCEPT ![r].pc = "read", ![r].called = TRUE]
            /\ UNCHANGED <<gen, last>>
    /\ UNCHANGED <<caches, now, uses, put_at>>

(* item_json = self.values[self.position]; self.api.update_caches(item_json) *)
Read(r) ==
    /\ readers[r].pc = "read"
    /\ IF gen.position >= Len(gen.values)
       THEN /\ readers' = [readers EXCEPT ![r].pc = "idle"]
            /\ last' = Returned(r, "raise", "IndexError", <<>>)
            /\ UNCHANGED <<caches, uses, put_at>>
       ELSE LET u == update_caches(State, ItemBody(gen.values[gen.position + 1]), now)
            IN  /\ caches' = u.caches.cache
                /\ uses' = u.caches.uses
                /\ put_at' = u.caches.put_at
                /\ IF u.raise # ""
                   THEN /\ readers' = [readers EXCEPT ![r].pc = "idle"]
                        /\ last' = Returned(r, "raise", u.raise, <<>>)
                   ELSE /\ readers' = [readers EXCEPT ![r].pc = "load",
                                                      ![r].at = gen.position + 1]
                        /\ UNCHANGED last
    /\ UNCHANGED <<now, gen>>

(* self.position += 1: the position is loaded ... *)
Load(r) ==
    /\ readers[r].pc = "load"
    /\ readers' = [readers EXCEPT ![r].pc = "store", ![r].pos = gen.position]
    /\ UNCHANGED <<caches, now, gen, last, uses, put_at>>

(* ... and stored, one more *)
Store(r) ==
    /\ readers[r].pc = "store"
    /\ gen' = Advance(gen, readers[r].pos)
    /\ readers' = [readers EXCEPT ![r].pc = "map"]
    /\ UNCHANGED <<caches, now, last, uses, put_at>>

(* The 'result_type' of the item read is popped when the item has one, and *)
(* the item is mapped                                                      *)
Map(r) ==
    /\ readers[r].pc = "map"
    /\ LET item_json == gen.values[readers[r].at]
           object_type == IF item_json.result_type # "" THEN item_json.result_type
                          ELSE DropLastChar(gen.result_key)
           popped == [item_json EXCEPT !.result_type = ""]
           vals == [gen.values EXCEPT ![readers[r].at] = popped]
           g1 == [gen EXCEPT !.values = vals, !.json.body[gen.result_key] = vals]
           o == object_from_json(object_type, popped)
       IN  IF o.raise # ""
           THEN /\ gen' = g1
                /\ readers' = [readers EXCEPT ![r].pc = "idle",
                                              ![r].got = Append(@, Unmapped(popped))]
                /\ last' = Returned(r, "raise", o.raise, <<>>)
           ELSE /\ gen' = [g1 EXCEPT !.drawn = Append(gen.drawn, o.obj)]
                /\ readers' = [readers EXCEPT ![r].pc = "idle",
                                              ![r].got = Append(@, o.obj)]
                /\ last' = Returned(r, "entity", "", <<o.obj>>)
    /\ UNCHANGED <<caches, now, uses, put_at>>

NextReaders ==
    \/ Construct
    \/ \E r \in Readers : Enter(r) \/ Read(r) \/ Load(r) \/ Store(r) \/ Map(r)

SpecReaders == Init /\ [][NextReaders]_vars

(* Lookups, listings and draws of volatile data as time passes, the       *)
(* generator of a call dropped at the next call                            *)
NextBounded ==
    \/ Tick
    \/ Get(VolatileTypes, {1}, FALSE)
    \/ GetMany(VolatileTypes, {1}, FALSE)
    \/ List(VolatileTypes, {1}, FALSE)
    \/ GenNext({1})

SpecBounded == Init /\ [][NextBounded]_vars

(* Lookups and listings that the service refuses or that do not reach it,  *)
(* among those it answers; the caller keeps its generator                  *)
Refusals ==
    {Response(304, FALSE, Json(EmptyBody, Absent)),
     Response(404, TRUE, Json(EmptyBody, Absent)),
     Unreachable}

Refused(T) ==
    \E t \in T, response \in Refusals :
        \/ \E id \in Ids : Apply("get", t, "id", <<id>>, response, TRUE)
        \/ \E ids \in IdLists : Apply("getMany", t, "ids", ids, response, TRUE)
        \/ Apply("list", t, "", <<>>, response, TRUE)

NextFailing ==
    \/ Get(RefTypes, {1}, TRUE)
    \/ List(RefTypes, {1}, TRUE)
    \/ GenNext({1})
    \/ Refused(RefTypes)

SpecFailing == Init /\ [][NextFailing]_vars

(* update_caches called with each kind of payload it is handed: an object  *)
(* under its type, a list under the plural, search results tagged with     *)
(* their types, and an item holding a nested object                        *)
StoredTypes == {"user", "organization"}

Stored ==
    {Single(t, id, 1) : t \in StoredTypes, id \in Ids}
    \cup {Many(t, ids, 1, "") : t \in StoredTypes, ids \in {<<1, 2>>, <<3, 1>>}}
    \cup {Json(("results" :> <<Item(ids[1], 1, a, ""), Item(ids[2], 1, b, "")>>), Null) :
             a \in StoredTypes, b \in StoredTypes, ids \in {<<1, 2>>, <<3, 3>>}}
    \cup {Json(ItemBody(Item(id, 1, "", t)), Absent) : t \in StoredTypes, id \in Ids}

UpdateCaches ==
    \E _json \in Stored :
        LET u == update_caches(State, _json.body, now)
            o == Outcome(IF u.raise # "" THEN "raise" ELSE "none", u.raise, <<>>,
                         <<>>, u.caches, gen)
        IN  Becomes(o, Call("update_caches", "", <<>>, NoPre, Response(0, TRUE, _json), o))

NextStore == UpdateCaches \/ QueryCache(StoredTypes)

SpecStore == Init /\ [][NextStore]_vars

----------------------------------------------------------------------------
(* Properties of lookups and listings of reference data (Spec) *)

(* C1: get(id) of a cacheable type makes no network request and returns    *)
(* the cached entity when (type, id) is in the cache, and makes exactly    *)
(* one network request, for that id, when it is not.                       *)
C1_GetFromCacheOrOneRequest ==
    (last.op = "get" /\ last.type \in CacheTypes) =>
        /\ last.hit =>
              /\ last.req = <<>>
              /\ last.outcome = "entity"
              /\ last.value = last.cached
        /\ ~last.hit => last.req = <<Request("id", last.ids)>>

(* A lookup answered from the cache, after the cache was filled to its capacity *)
C1_Witness_Hit ==
    /\ last.op = "get" /\ last.type \in CacheTypes
    /\ last.hit /\ last.req = <<>> /\ last.value = last.cached
    /\ Len(caches[last.type]) = cache_mapping[last.type].maxsize

(* C2: getMany(ids) of a cacheable type: when every id is in the cache, no *)
(* network request is made and the answer is the cached entities; when an  *)
(* id misses, exactly one request is made, for the whole id list, and the  *)
(* answer is a generator over the items of that response alone.            *)
C2_GetManyAllCachedOrOneQuery ==
    (last.op = "getMany" /\ last.type \in CacheTypes) =>
        /\ last.hit =>
              /\ last.req = <<>>
              /\ last.outcome = "list"
              /\ last.value = last.cached
        /\ ~last.hit =>
              /\ last.req = <<Request("ids", last.ids)>>
              /\ last.outcome \in {"generator", "raise"}
              /\ last.outcome = "generator" =>
                    /\ last.value = <<>>
                    /\ gen.values = last.resp.json.body[ResultKey(last.type)]
                    /\ gen.position = 0 /\ gen.drawn = <<>>

(* Two ids asked, one in the cache and one not: the answer holds the       *)
(* fetched version of the cached one                                       *)
C2_Witness_PartialMiss ==
    /\ last.op = "getMany" /\ last.type \in CacheTypes
    /\ Len(last.ids) = 2 /\ ~last.hit /\ Len(last.cached) = 1
    /\ last.outcome = "generator"
    /\ \E i \in 1..Len(gen.values) :
          /\ gen.values[i].id = last.cached[1].id
          /\ gen.values[i].ver # last.cached[1].ver

(* C4: each capacity-bounded cache holds exactly the most recently used    *)
(* ids (used by a hit of query_cache or a put of _cache_item), as many as  *)
(* its capacity, in the order of their last use: a put of a new id into a  *)
(* full cache evicts the least recently used entry and no other.           *)
C4_LruKeepsMostRecentlyUsed ==
    \A t \in LruTypes :
        [i \in 1..Len(caches[t]) |-> caches[t][i].id]
            = LastN(uses[t], cache_mapping[t].maxsize)

(* A put of a new id into a full cache has evicted an entry *)
C4_Witness_Evicted ==
    /\ last.op = "get" /\ last.type \in LruTypes
    /\ ~last.hit /\ last.outcome = "entity"
    /\ Len(uses[last.type]) > cache_mapping[last.type].maxsize
    /\ Len(caches[last.type]) = cache_mapping[last.type].maxsize

----------------------------------------------------------------------------
(* Properties of lookups of volatile data (SpecVolatile) *)

(* C5, as claimed: a lookup of a ticket or comment made no later than its  *)
(* last put plus the time-to-live is answered from the cache, with no      *)
(* network request, whatever happened to the cache in between.             *)
C5_FreshLookupFromCache ==
    (last.op = "get" /\ last.type \in TtlTypes /\ last.age = "fresh") =>
        /\ last.req = <<>>
        /\ last.outcome = "entity"
        /\ last.cached # <<>> /\ last.value = last.cached

(* C5, amended: a lookup of a ticket or comment made no later than its     *)
(* last put plus the time-to-live is answered from the cache, with no      *)
(* network request, when the id is among the most recently used ids of     *)
(* that cache, as many as the cache holds.                                 *)
C5_FreshRecentLookupFromCache ==
    (last.op = "get" /\ last.type \in TtlTypes /\ last.age = "fresh" /\ last.recent) =>
        /\ last.req = <<>>
        /\ last.outcome = "entity"
        /\ last.cached # <<>> /\ last.value = last.cached

(* A lookup answered from the cache at the last moment of the entry's life *)
C5_Witness_HitAtTtl ==
    /\ last.op = "get" /\ last.type \in TtlTypes
    /\ last.age = "fresh" /\ last.recent /\ last.req = <<>>
    /\ last.value = last.cached
    /\ now = put_at[last.type][last.ids[1]] + cache_mapping[last.type].ttl
    /\ Len(uses[last.type]) > 1

(* C6: a lookup of a ticket or comment made later than its last put plus   *)
(* the time-to-live is not answered from the cache: get makes its network  *)
(* request and what it returns is the entity of that response, which it    *)
(* puts, never the expired one.                                            *)
C6_ExpiredLookupMisses ==
    (last.op = "get" /\ last.type \in TtlTypes /\ last.age = "expired") =>
        /\ last.req = <<Request("id", last.ids)>>
        /\ last.cached = <<>>
        /\ last.outcome = "entity" =>
              /\ last.value = <<_object_from_json(last.type, last.resp.json.body[last.type][1])>>
              /\ last.value[1].ver = put_at[last.type][last.ids[1]]

(* A lookup of an expired entry that fetched the entity anew *)
C6_Witness_ExpiredRefetched ==
    /\ last.op = "get" /\ last.type \in TtlTypes
    /\ last.age = "expired" /\ last.outcome = "entity"
    /\ last.value[1].ver > cache_mapping[last.type].ttl

----------------------------------------------------------------------------
(* Properties of paginated results (SpecPaged) *)

(* The entities of the two-page result set of the generator's type *)
TwoPageEntities ==
    [i \in 1..3 |->
        [id |-> i,
         ver |-> 1, variant |-> IF gen.result_key = "results" THEN "topic"
                     ELSE DropLastChar(gen.result_key)]]

(* C3: a generator on the two-page result set yields its 3 entities in     *)
(* page order and then signals the end; page 2 is fetched once, by the     *)
(* next() made after both items of page 1 were drawn.  So, as long as the  *)
(* service answers: what was drawn is a prefix of the 3 entities, no page  *)
(* was fetched while at most 2 were drawn and one from then on, next()     *)
(* never raises, and it signals the end only after the third entity.       *)
C3_TwoPagesYieldThree ==
    (gen.active /\ (gen.json.next_page > Null \/ gen.fetched > 0)
        /\ gen.result_key \in {"users", "topics"}) =>
        /\ gen.drawn = SubSeq(TwoPageEntities, 1, Len(gen.drawn))
        /\ gen.fetched = IF Len(gen.drawn) > 2 THEN 1 ELSE 0
        /\ (last.op = "next" /\ last.resp.status_code \in {0, 200}) =>
              /\ last.outcome \in {"entity", "stop"}
              /\ last.outcome = "stop" => Len(gen.drawn) = 3

(* C13: an entity of a cacheable type handed back from a network response  *)
(* (by a lookup that missed, or yielded by next() on a generator that a    *)
(* lookup or a listing returned) is in the cache of its type under its id  *)
(* when it is returned.                                                    *)
C13_ReturnedEntityIsCached ==
    (/\ last.outcome = "entity"
     /\ \/ last.op = "get" /\ last.req # <<>>
        \/ last.op = "next"
     /\ last.value[1].variant \in CacheTypes) =>
        /\ InCache(State, last.value[1].variant, last.value[1].id, now)
        /\ Cached(State, last.value[1].variant, last.value[1].id) = last.value[1]

(* C14: update_caches is called with the payload of a page exactly once    *)
(* for each page a generator consumes, when the page is fetched, and not   *)
(* again when the items of the page are drawn: whatever was drawn so far,  *)
(* the count of such calls for the generator's current page is 1.          *)
C14_PageCachedOnce ==
    gen.active => gen.page_updates = 1

----------------------------------------------------------------------------
(* Properties of the type registry (SpecRegistry) *)

(* C8: for a registered type without a cache, query_cache reports a miss   *)
(* and add_to_cache returns, neither raising; cache_search_results         *)
(* returns without raising whatever registered types tag the results.      *)
C8_UncachedTypesMissAndIgnorePuts ==
    /\ (last.op = "query_cache" /\ last.type \in UncachedTypes) =>
          (last.outcome = "miss" /\ last.err = "")
    /\ (last.op = "add_to_cache" /\ last.type \in UncachedTypes) =>
          (last.outcome = "none" /\ last.err = "")
    /\ last.op = "cache_search_results" =>
          (last.outcome = "none" /\ last.err = "")

----------------------------------------------------------------------------
(* Properties of create, update and delete (SpecMutate) *)

(* C9: delete, of one entity or of a list, raises when the status of the   *)
(* DELETE response is outside 200..299 and returns normally when it is     *)
(* inside.                                                                 *)
C9_DeleteRaisesOutside2xx ==
    last.op = "delete" =>
        /\ Len(last.req) = 1 /\ last.req[1].method = "DELETE"
        /\ last.resp.status_code \notin 200..299 =>
              (last.outcome = "raise" /\ last.err # "")
        /\ last.resp.status_code \in 200..299 =>
              (last.outcome = "none" /\ last.err = "")

(* A delete of a list answered 304 with no JSON body, which                *)
(* raise_for_status lets pass: the call still raises                       *)
C9_Witness_RedirectRaises ==
    /\ last.op = "delete" /\ Len(last.ids) = 2
    /\ last.resp.status_code = 304 /\ ~last.resp.is_json
    /\ last.outcome = "raise"

(* C10: the decoder of create and update answers returns the ticket+audit  *)
(* composite exactly when both 'ticket' and 'audit' are keys of the answer,*)
(* otherwise a User when 'user' is, otherwise a JobStatus when             *)
(* 'job_status' is, and raises when none is.                               *)
C10_DecodesByKeys ==
    (last.op \in {"create", "update"} /\ last.resp.status_code \in 200..299) =>
        LET keys == DOMAIN last.resp.json.body
        IN  IF {"ticket", "audit"} \subseteq keys
            THEN last.outcome = "ticket_audit"
            ELSE IF "user" \in keys
            THEN last.outcome = "entity" /\ last.value[1].variant = "user"
            ELSE IF "job_status" \in keys
            THEN last.outcome = "entity" /\ last.value[1].variant = "job_status"
            ELSE last.outcome = "raise"

(* C12: create with a non-empty list of k entities makes one POST whose    *)
(* payload has the key named after the first entity, lowercase with 's'    *)
(* appended, holding all k entities in order; with one entity it makes one *)
(* POST keyed by the entity's lowercase type name.                         *)
C12_CreateOnePost ==
    (last.op = "create" /\ last.arg[2] # <<>>) =>
        /\ Len(last.req) = 1 /\ last.req[1].method = "POST"
        /\ last.req[1].objs = last.arg[2]
        /\ last.req[1].key =
              IF last.arg[1] = "list"
              THEN AddS(ClassName(last.arg[2][1]))
              ELSE ClassName(last.arg[2][1])
        /\ last.req[1].kw = IF last.arg[1] = "list" THEN "create_many" ELSE ""

(* A create of a list of two entities, answered with success *)
C12_Witness_TwoInOnePost ==
    /\ last.op = "create" /\ last.arg[1] = "list" /\ Len(last.arg[2]) = 2
    /\ last.type = "ticket" /\ last.arg[2][2].variant = "ticket"
    /\ last.req[1].key = "tickets" /\ Len(last.req[1].objs) = 2
    /\ last.outcome = "ticket_audit"

----------------------------------------------------------------------------
(* Properties of update with a sequence (SpecUpdate) *)

(* C11: update with a sequence of k >= 1 entities, a list or a generator   *)
(* on its last page, makes one PUT whose payload holds, under the          *)
(* pluralized lowercase type name, all k entities of the sequence in order. *)
C11_UpdateSendsWholeSequence ==
    (/\ last.op = "update" /\ last.arg[2] # <<>>
     /\ \/ last.arg[1] = "list"
        \/ last.arg[1] = "generator" /\ gen.json.next_page <= Null) =>
        /\ Len(last.req) = 1 /\ last.req[1].method = "PUT"
        /\ last.req[1].key = AddS(ClassName(last.arg[2][1]))
        /\ last.req[1].objs = last.arg[2]

----------------------------------------------------------------------------
(* Properties of a generator at its end (SpecUpdate) *)

(* C15: exhaustion is absorbing.  Once a next() on the generator has       *)
(* signalled the end, every later next() on it signals the end too, yields *)
(* no entity, makes no request and leaves the generator where it was.      *)
C15_ExhaustionIsAbsorbing ==
    [][(gen.active /\ gen.stops > 0 /\ last'.op = "next") =>
          /\ last'.outcome = "stop" /\ last'.err = "StopIteration"
          /\ last'.value = <<>> /\ last'.req = <<>>
          /\ gen'.drawn = gen.drawn /\ gen'.position = gen.position
          /\ gen'.values = gen.values]_vars

(* A generator that yielded an entity has signalled the end twice *)
C15_Witness_StoppedTwice ==
    /\ last.op = "next" /\ last.outcome = "stop"
    /\ gen.active /\ gen.stops = 2 /\ gen.drawn # <<>>

----------------------------------------------------------------------------
(* Properties of the mapping of drawn items (SpecGenerator) *)

(* The key of endpoint_mapping the generator was constructed with *)
ConstructedFor(g) ==
    CHOOSE k \in DOMAIN endpoint_mapping : endpoint_mapping[k] = g.result_key

(* C16: every item drawn by next() is mapped to an entity of a registered  *)
(* type: the type its 'result_type' tag names when it carries a tag, and   *)
(* otherwise the type the generator was constructed for; whatever the      *)
(* result key of the generator, an untagged item does not make next() fail.*)
C16_VariantByTagOrDefault ==
    (last.op = "next" /\ last.arg # <<>>) =>
        /\ last.outcome = "entity"
        /\ last.value[1].variant \in class_mapping
        /\ last.arg[1].result_type # "" => last.value[1].variant = last.arg[1].result_type
        /\ (last.arg[1].result_type = "" /\ ConstructedFor(gen) \in class_mapping) =>
              last.value[1].variant = ConstructedFor(gen)

----------------------------------------------------------------------------
(* Properties of a generator with two readers (SpecReaders) *)

(* C17: next() reads the item at the position and advances the position in *)
(* separate steps that nothing keeps together.  While a single reader      *)
(* calls next(), every item is handed out exactly once and in order: what  *)
(* the reader received are the entities of the first items, as many as the *)
(* position counts (for an item whose mapping raises, see C16, the reader   *)
(* received the exception).  With two readers this fails: see the witness. *)
C17_SingleReaderExactlyOnce ==
    \A r \in Readers :
        (gen.active /\ \A q \in Readers \ {r} : ~readers[q].called) =>
            /\ Len(readers[r].got) <= Len(gen.values)
            /\ \A i \in 1..Len(readers[r].got) : readers[r].got[i].id = gen.values[i].id
            /\ gen.position = Len(readers[r].got)
                                 + (IF readers[r].pc = "map" THEN 1 ELSE 0)
            /\ gen.drawn = SelectSeq(readers[r].got, LAMBDA e : e.variant # "")
            /\ \A i \in 1..Len(readers[r].got) :
                  readers[r].got[i].variant = "" => gen.result_key = "results"

(* Two readers interleaved: both received the first item, and the position *)
(* is past the second item, which no reader received                       *)
C17_Witness_SameItemTwiceAndOneSkipped ==
    /\ \A r \in Readers : readers[r].pc = "idle" /\ Len(readers[r].got) = 1
                           /\ readers[r].got[1].id = gen.values[1].id
    /\ gen.position = 2 /\ Len(gen.values) = 2
    /\ \A r \in Readers : \A i \in 1..Len(readers[r].got) :
          readers[r].got[i].id # gen.values[2].id

----------------------------------------------------------------------------
(* Properties of the caches under lookups, listings and draws (SpecBounded) *)

(* C18: every cache holds at most as many entries as its capacity, the     *)
(* time-bounded caches too, and no id twice.                               *)
C18_CachesWithinCapacity ==
    \A t \in CacheTypes :
        /\ Len(caches[t]) <= cache_mapping[t].maxsize
        /\ \A i, j \in 1..Len(caches[t]) : caches[t][i].id = caches[t][j].id => i = j

(* A ticket whose last put is within the time-to-live is looked up and is  *)
(* not in the cache: puts of other ids into the full cache removed it      *)
C18_Witness_FreshEntryEvicted ==
    /\ last.op = "get" /\ last.type = "ticket"
    /\ last.age = "fresh" /\ ~last.hit /\ last.req # <<>>
    /\ Len(caches["ticket"]) = cache_mapping["ticket"].maxsize

----------------------------------------------------------------------------
(* Properties of failed requests (SpecFailing) *)

(* The entries of the caches: (type, id, entity) *)
Entries(c) ==
    UNION {{<<t, c[t][i].id, c[t][i].obj>> : i \in 1..Len(c[t])} : t \in CacheTypes}

(* The request got no response, or one with a status outside 200..299 *)
Failed(response) == response.status_code < 200 \/ response.status_code > 299

(* C19: a lookup, bulk lookup, listing or draw whose request fails (a      *)
(* status outside 200..299, or no response) raises and leaves the entries  *)
(* of every cache and the generator as they were; and a draw that raises   *)
(* at the end of a page leaves the items, the position and the locator of  *)
(* the generator as they were.                                             *)
C19_FailedRequestChangesNothing ==
    [][/\ (/\ last'.op \in {"get", "getMany", "list", "next"}
           /\ last'.req # <<>> /\ Failed(last'.resp)) =>
              /\ last'.outcome = "raise"
              /\ Entries(caches') = Entries(caches)
              /\ gen' = gen
       /\ (/\ last'.op = "next" /\ last'.outcome = "raise"
           /\ gen.position >= Len(gen.values)) =>
              /\ Entries(caches') = Entries(caches)
              /\ gen'.values = gen.values /\ gen'.position = gen.position
              /\ gen'.json = gen.json]_vars

(* A bulk lookup found one of its ids in the cache and missed the other,   *)
(* and its request failed; the cache holds what it held                    *)
C19_Witness_BulkLookupFailed ==
    /\ last.op = "getMany" /\ Len(last.ids) = 2 /\ Len(last.cached) = 1
    /\ last.req # <<>> /\ Failed(last.resp) /\ last.outcome = "raise"
    /\ InCache(State, "user", last.cached[1].id, now)

----------------------------------------------------------------------------
(* Properties of what the caches hold (SpecStore) *)

(* C20: every entry of the cache of a type is stored under the id of the   *)
(* entity it holds, the id of the payload the entity was built from, and   *)
(* holds an entity of that type; and no id is held twice.                  *)
C20_EntriesKeyedByTypeAndId ==
    \A t \in CacheTypes : \A i \in 1..Len(caches[t]) :
        /\ caches[t][i].obj.variant = t
        /\ caches[t][i].obj.id = caches[t][i].id
        /\ \A j \in 1..Len(caches[t]) : caches[t][j].id = caches[t][i].id => j = i

(* Search results of two types were stored: the user in the user cache and *)
(* the organization, of the same id, in the organization cache             *)
C20_Witness_MixedResultsStored ==
    /\ last.op = "update_caches" /\ last.outcome = "none"
    /\ "results" \in DOMAIN last.resp.json.body
    /\ last.resp.json.body["results"][1].result_type = "user"
    /\ last.resp.json.body["results"][2].result_type = "organization"
    /\ last.resp.json.body["results"][1].id = last.resp.json.body["results"][2].id
    /\ InCache(State, "user", last.resp.json.body["results"][1].id, now)
    /\ InCache(State, "organization", last.resp.json.body["results"][2].id, now)
    /\ Cached(State, "organization", last.resp.json.body["results"][2].id).variant
          = "organization"

====
